---- MODULE Spec2Model ----
(***************************************************************************)
(* A model of the navigation control loop of webnav:                       *)
(*   app/navigator.py      WebNavigator.handle_prompt, _validate_action,   *)
(*                         _is_task_complete, perform_action               *)
(*   app/llm_interface.py  LLMInterface._send_to_llm, _parse_response,     *)
(*                         _validate_response, decide_next_action          *)
(*                                                                         *)
(* Python values are modelled as follows.                                  *)
(*   - a dict is a function whose DOMAIN is the set of keys present, so    *)
(*     `"value" in action` is  "value" \in DOMAIN a;                       *)
(*   - None is the string "None";                                          *)
(*   - the target of an action is a tagged value: [tag |-> "str", s |-> _],*)
(*     [tag |-> "dict", d |-> _] or [tag |-> "other"] (a number, a list,   *)
(*     null), so that isinstance(target, ...) is a test of the tag;        *)
(*   - an element the loop iterates over is [t |-> "dict", d |-> _] or     *)
(*     [t |-> "str", s |-> _]  (iterating a dict yields its keys).         *)
(***************************************************************************)
EXTENDS Integers, Sequences, FiniteSets, TLC

VARIABLES
    pc,              \* position of handle_prompt
    retry_count,     \* navigator.py:134
    action_history,  \* navigator.py:45, the Action History Ledger
    driver_url,      \* the browser's current URL (driver.current_url)
    current_url,     \* navigator.py:140, the URL of the last snapshot
    raw,             \* the model's answer to the last request
    actions,         \* navigator.py:151, what decide_next_action returned
    idx,             \* position of the for loop of navigator.py:172
    valid,           \* result of _validate_action for actions[idx]
    outcome,         \* how handle_prompt ended
    calls,           \* number of requests sent to the model so far
    retry_at_start,  \* retry_count when the current iteration started
    performed,       \* positions of the batch perform_action was called for
    driver_calls,    \* driver operations issued in the current iteration
    prompt,          \* navigator.py:49, the task given to handle_prompt
    full_prompt,     \* llm_interface.py:414, the prompt of the last request
    conversation_history,  \* llm_interface.py:31, the stored messages
    task_no,         \* number of the task (the call of handle_prompt)
    driver,          \* main.py:24, the driver of the request (0 is None)
    quits,           \* number of calls of quit() on that driver
    reply            \* main.py:55-58, the answer to the request

vars == <<pc, retry_count, action_history, driver_url, current_url, raw,
          actions, idx, valid, outcome, calls, retry_at_start, performed,
          driver_calls, prompt, full_prompt, conversation_history, task_no,
          driver, quits, reply>>

(***************************************************************************)
(* Bounds of the model.                                                    *)
(***************************************************************************)
\* longest list of actions the model service answers with
MaxBatch == 2
\* number of requests to the model service in one run of handle_prompt
MaxCalls == 3

(***************************************************************************)
(* Program constants.                                                      *)
(***************************************************************************)
\* BROWSER_MAX_RETRIES, default 3
max_retries == 3

ActionTypes == {"navigate", "click", "type", "wait", "extract"}

Strategies == {"id", "name", "css", "xpath", "link_text",
               "partial_link_text", "class_name", "tag_name"}

by_map == {"id", "name", "css", "xpath", "link_text",
           "partial_link_text", "class_name", "tag_name"}

GoogleUrl == "https://www.google.com"

initial_action == [action |-> "navigate", target |-> GoogleUrl]

Completed == "Action completed successfully"

(***************************************************************************)
(* Values.                                                                 *)
(***************************************************************************)
Str(s) == [tag |-> "str", s |-> s]
Loc(d) == [tag |-> "dict", d |-> d]
Other == [tag |-> "other"]
Dict(d) == [t |-> "dict", d |-> d]
Key(s) == [t |-> "str", s |-> s]

\* `k in x` of Python for the element x the loop holds: a key test on a
\* dict, a substring test on a string (the strings are keys of an action).
SubstringOf ==
    {<<"action", "action">>, <<"target", "target">>,
     <<"target", "target_achieved">>}

Has(x, k) ==
    IF x.t = "dict" THEN k \in DOMAIN x.d ELSE <<k, x.s>> \in SubstringOf

(***************************************************************************)
(* WebNavigator._validate_action, navigator.py:233-261.  x is the element  *)
(* the for loop holds.  The rules are tried in the order of the code and   *)
(* the first one that fails returns False.  (A string passes the first     *)
(* rule only if it contains both key names; no key of an action does.)     *)
(* The two definitions before it are the validator with one rule left out. *)
(***************************************************************************)
_validate_action_NoStrategyCheck(x) ==
    IF ~(Has(x, "action") /\ Has(x, "target")) THEN FALSE
    ELSE IF x.d.action \notin ActionTypes THEN FALSE
    ELSE IF x.d.target.tag \notin {"str", "dict"} THEN FALSE
    ELSE IF x.d.target.tag = "dict"
            /\ ("strategy" \notin DOMAIN x.d.target.d
                \/ "value" \notin DOMAIN x.d.target.d) THEN FALSE
    ELSE IF x.d.action = "type" /\ "value" \notin DOMAIN x.d THEN FALSE
    ELSE TRUE

_validate_action_NoValueCheck(x) ==
    IF ~(Has(x, "action") /\ Has(x, "target")) THEN FALSE
    ELSE IF x.d.action \notin ActionTypes THEN FALSE
    ELSE IF x.d.target.tag \notin {"str", "dict"} THEN FALSE
    ELSE IF x.d.target.tag = "dict"
            /\ ("strategy" \notin DOMAIN x.d.target.d
                \/ "value" \notin DOMAIN x.d.target.d) THEN FALSE
    ELSE IF x.d.target.tag = "dict"
            /\ x.d.target.d.strategy \notin Strategies THEN FALSE
    ELSE TRUE

_validate_action(x) ==
    IF ~(Has(x, "action") /\ Has(x, "target")) THEN FALSE
    ELSE IF x.d.action \notin ActionTypes THEN FALSE
    ELSE IF x.d.target.tag \notin {"str", "dict"} THEN FALSE
    ELSE IF x.d.target.tag = "dict"
            /\ ("strategy" \notin DOMAIN x.d.target.d
                \/ "value" \notin DOMAIN x.d.target.d) THEN FALSE
    ELSE IF x.d.target.tag = "dict"
            /\ x.d.target.d.strategy \notin Strategies THEN FALSE
    ELSE IF x.d.action = "type" /\ "value" \notin DOMAIN x.d THEN FALSE
    ELSE TRUE

(***************************************************************************)
(* LLMInterface._validate_response, llm_interface.py:354-370.              *)
(***************************************************************************)
_validate_response(x) ==
    IF x.t # "dict" THEN FALSE
    ELSE IF "action" \notin DOMAIN x.d \/ "target" \notin DOMAIN x.d THEN FALSE
    ELSE IF x.d.action \notin ActionTypes THEN FALSE
    ELSE IF x.d.action = "type" /\ "value" \notin DOMAIN x.d THEN FALSE
    ELSE TRUE

(***************************************************************************)
(* WebNavigator._is_task_complete, navigator.py:224-231:                   *)
(* action.get("task_complete", False).  The definition before it reads     *)
(* the other completion field, target_achieved.                            *)
(***************************************************************************)
_is_task_complete_TargetAchieved(x) ==
    IF "target_achieved" \in DOMAIN x.d THEN x.d.target_achieved = TRUE ELSE FALSE

_is_task_complete(x) ==
    IF "task_complete" \in DOMAIN x.d THEN x.d.task_complete ELSE FALSE

(***************************************************************************)
(* The answer of the model service to one request.                         *)
(*   [t |-> "transport"]  the request or the decoding of its envelope      *)
(*                        raises (llm_interface.py:235-256)                *)
(*   [t |-> "empty"]      the content is the empty string                  *)
(*   [t |-> "text", prose |-> b, payload |-> p]  a text: prose (without    *)
(*                        brackets) if b, followed by the payload p:       *)
(*        [p |-> "none"]                 nothing                           *)
(*        [p |-> "scalar"]               a JSON number or string           *)
(*        [p |-> "list", items |-> s]    a JSON list                       *)
(*        [p |-> "dict", d |-> d]        a JSON object                     *)
(***************************************************************************)
NoAnswer == [t |-> "none"]
Transport == [t |-> "transport"]
Empty == [t |-> "empty"]
Text(b, p) == [t |-> "text", prose |-> b, payload |-> p]
PNone == [p |-> "none"]
PScalar == [p |-> "scalar"]
PList(s) == [p |-> "list", items |-> s]
PDict(d) == [p |-> "dict", d |-> d]

\* selector values whose text holds a "[" character
BracketValues == {"a[href]"}

\* whether the text of a JSON object holds a "[" (inside a selector value)
HasBracket(d) ==
    /\ "target" \in DOMAIN d
    /\ d.target.tag = "dict"
    /\ "value" \in DOMAIN d.target.d
    /\ d.target.d.value \in BracketValues

Raised == [raised |-> TRUE]
Returned(v) == [raised |-> FALSE, v |-> v]

(***************************************************************************)
(* json.loads with the fallback scan, llm_interface.py:291-301.  A text    *)
(* that begins with prose fails to decode as a whole; the scan then takes  *)
(* the text from the first "[", or from the first "{" if there is no "[".  *)
(***************************************************************************)
JsonDecode(text) ==
    IF ~text.prose
    THEN IF text.payload.p = "none" THEN Raised ELSE Returned(text.payload)
    ELSE CASE text.payload.p = "list" -> Returned(text.payload)
           [] text.payload.p = "dict" ->
                IF HasBracket(text.payload.d) THEN Raised
                ELSE Returned(text.payload)
           [] OTHER -> Raised

\* llm_interface.py:318-324 and 338-344: add missing fields with defaults
Backfill(d) ==
    d @@ [explanation |-> "None", value |-> "None", target_achieved |-> FALSE]

\* llm_interface.py:311-316: the checks on one element of a list
ListItemOk(x) ==
    x.t = "dict" /\ "action" \in DOMAIN x.d /\ "target" \in DOMAIN x.d

BackfillItem(x) == Dict(Backfill(x.d))

(***************************************************************************)
(* LLMInterface._parse_response, llm_interface.py:287-351.  Returns a list *)
(* [t |-> "list", items |-> s] or a single action [t |-> "dict", d |-> d], *)
(* or raises ValueError.                                                   *)
(***************************************************************************)
_parse_response(text) ==
    LET dec == JsonDecode(text) IN
    IF dec.raised THEN Raised
    ELSE CASE dec.v.p = "list" ->
                IF dec.v.items = <<>> THEN Raised
                ELSE IF \E i \in 1..Len(dec.v.items) : ~ListItemOk(dec.v.items[i])
                THEN Raised
                ELSE Returned([t |-> "list",
                               items |-> [i \in 1..Len(dec.v.items) |->
                                            BackfillItem(dec.v.items[i])]])
           [] dec.v.p = "dict" ->
                IF "action" \notin DOMAIN dec.v.d \/ "target" \notin DOMAIN dec.v.d
                THEN Raised
                ELSE Returned(Dict(Backfill(dec.v.d)))
           [] OTHER -> Raised

(***************************************************************************)
(* LLMInterface._send_to_llm, llm_interface.py:219-282: every exception is *)
(* raised again as ValueError.                                             *)
(***************************************************************************)
_send_to_llm(r) ==
    IF r.t = "transport" THEN Raised
    ELSE IF r.t = "empty" THEN Raised
    ELSE _parse_response(r)

NoneValue == [t |-> "None"]

(***************************************************************************)
(* LLMInterface.decide_next_action, llm_interface.py:408-441: the value    *)
(* handed to handle_prompt, None after any exception.                      *)
(***************************************************************************)
decide_next_action(r) ==
    LET response == _send_to_llm(r) IN
    IF response.raised THEN NoneValue
    ELSE IF response.v.t = "list"
    THEN IF \E i \in 1..Len(response.v.items) :
                ~_validate_response(response.v.items[i])
         THEN NoneValue
         ELSE response.v
    ELSE IF ~_validate_response(response.v) THEN NoneValue
    ELSE response.v

\* the keys of an action after _parse_response, in insertion order, for
\* the actions the model service answers with (action and target first)
KeysOf(d) ==
    <<"action", "target">>
    \o (IF "value" \in DOMAIN d THEN <<"value">> ELSE <<>>)
    \o (IF "task_complete" \in DOMAIN d THEN <<"task_complete">> ELSE <<>>)
    \o (IF "explanation" \in DOMAIN d THEN <<"explanation">> ELSE <<>>)
    \o (IF "target_achieved" \in DOMAIN d THEN <<"target_achieved">> ELSE <<>>)

(***************************************************************************)
(* `for action in actions`, navigator.py:172: the elements the loop        *)
(* visits.  A list yields its elements, a dict yields its keys.            *)
(***************************************************************************)
IterItems(v) ==
    IF v.t = "list" THEN v.items
    ELSE [i \in 1..Len(KeysOf(v.d)) |-> Key(KeysOf(v.d)[i])]



(***************************************************************************)
(* LLMInterface.parse_user_prompt, llm_interface.py:372-406: the initial   *)
(* action for the answer r, or ValueError.  handle_prompt does not call    *)
(* it: the call of navigator.py:53 is commented out.                       *)
(***************************************************************************)
InitialActionTypes == {"navigate", "search"}

parse_user_prompt(r) ==
    LET response == _send_to_llm(r) IN
    IF response.raised THEN Raised
    ELSE IF response.v.t # "dict"
            \/ "action" \notin DOMAIN response.v.d
            \/ "target" \notin DOMAIN response.v.d THEN Raised
    ELSE IF response.v.d.action \notin InitialActionTypes THEN Raised
    ELSE Returned(response.v)

\* llm_interface.py:401, 404: the messages of an invalid initial action
InvalidInitialAction ==
    {"LLM returned an invalid initial action", "Invalid initial action type"}
(***************************************************************************)
(* LLMInterface._prepare_prompt, llm_interface.py:34-54: the part of the   *)
(* prompt built from the task, the page and the ledger.                    *)
(***************************************************************************)
\* the number of ledger entries shown to the model, llm_interface.py:38
RecentWindow == 5

\* Python's s[-k:] and s[:k]
LastN(s, k) == IF Len(s) > k THEN SubSeq(s, Len(s) - k + 1, Len(s)) ELSE s
FirstN(s, k) == IF Len(s) > k THEN SubSeq(s, 1, k) ELSE s

\* a window that shows the oldest entries
recent_actions_Oldest(history) == FirstN(history, RecentWindow)

\* llm_interface.py:38: action_history[-5:] if action_history else []
recent_actions(history) == LastN(history, RecentWindow)

\* str.upper on the kinds of action
Upper ==
    [navigate |-> "NAVIGATE", click |-> "CLICK", type |-> "TYPE",
     wait |-> "WAIT", extract |-> "EXTRACT", search |-> "SEARCH"]

\* llm_interface.py:46-47: the keys read with a subscript (KeyError if absent)
EntryOk(e) == "action" \in DOMAIN e /\ "target" \in DOMAIN e

\* llm_interface.py:46-53: the line of the prompt for the i-th entry shown
ContextLine(i, e) ==
    [no |-> i,
     action |-> Upper[e.action],
     target |->
        IF e.target.tag = "dict"
        THEN [strategy |-> IF "strategy" \in DOMAIN e.target.d
                           THEN e.target.d.strategy ELSE "unknown",
              value |-> IF "value" \in DOMAIN e.target.d
                        THEN e.target.d.value ELSE "unknown"]
        ELSE [text |-> e.target.s],
     value |-> IF "value" \in DOMAIN e /\ e.value \notin {"None", ""}
               THEN e.value ELSE "",
     url |-> IF "url" \in DOMAIN e THEN e.url ELSE "unknown URL"]

NoPrompt == [task |-> "None", url |-> "None", action_context |-> <<>>]

_prepare_prompt(task, page_url, history) ==
    LET recent == recent_actions(history) IN
    IF \E i \in 1..Len(recent) : ~EntryOk(recent[i]) THEN Raised
    ELSE Returned([task |-> task,
                   url |-> page_url,
                   action_context |->
                      [i \in 1..Len(recent) |-> ContextLine(i, recent[i])]])

(***************************************************************************)
(* The conversation history of LLMInterface, llm_interface.py:271-277.     *)
(* The content of a message is the number n of the request it belongs to   *)
(* (its prompt for the user message, its answer for the assistant's).      *)
(***************************************************************************)
\* the number of messages kept, llm_interface.py:276
HistoryLimit == 10

Message(role, n) == [role |-> role, content |-> n]

\* a history that keeps the oldest messages
UpdateConversation_KeepOldest(history, n) ==
    LET h == history \o <<Message("user", n), Message("assistant", n)>> IN
    IF Len(h) > HistoryLimit THEN FirstN(h, HistoryLimit) ELSE h

UpdateConversation(history, n) ==
    LET h == history \o <<Message("user", n), Message("assistant", n)>> IN
    IF Len(h) > HistoryLimit THEN LastN(h, HistoryLimit) ELSE h

\* llm_interface.py:235-268: the answers for which _send_to_llm raises
\* before it stores the exchange
NotStored(r) == r.t \in {"transport", "empty"}

(***************************************************************************)
(* WebNavigator.perform_action, navigator.py:263-337: the set of possible  *)
(* outcomes of one call.  An outcome tells whether the call raised, the    *)
(* driver operations it issued (in order), its return value and the URL    *)
(* of the browser afterwards.  A driver operation may fail (timeout,       *)
(* element not found); the first operation is then the only one issued.    *)
(***************************************************************************)
selector_strategy(a) ==
    IF a.target.tag = "dict"
    THEN IF "strategy" \in DOMAIN a.target.d THEN a.target.d.strategy ELSE "css"
    ELSE "css"

selector_value(a) ==
    IF a.target.tag = "dict"
    THEN IF "value" \in DOMAIN a.target.d THEN a.target.d.value ELSE "None"
    ELSE IF a.target.tag = "str" THEN a.target.s ELSE "None"

\* strings int() accepts
Numerals == {"5"}

Fails(ops, url) == [raised |-> TRUE, ops |-> ops, result |-> "None", url |-> url]
Succeeds(ops, res, url) == [raised |-> FALSE, ops |-> ops, result |-> res, url |-> url]

\* perform_action with the lookup started before the strategy is checked
perform_action_LookupFirst(a, url) ==
    IF selector_strategy(a) \notin by_map THEN {Fails(<<"find">>, url)}
    ELSE CASE a.action = "click" ->
                {Fails(<<"find">>, url),
                 Succeeds(<<"find", "click">>, Completed, url)}
           [] a.action = "type" ->
                {Fails(<<"find">>, url),
                 Succeeds(<<"find", "clear", "send_keys">>, Completed, url)}
           [] a.action = "wait" ->
                IF selector_value(a) \in Numerals
                THEN {Succeeds(<<>>, Completed, url)}
                ELSE {Fails(<<>>, url)}
           [] a.action = "extract" ->
                {Fails(<<"find">>, url),
                 Succeeds(<<"find", "text">>, "element text", url)}
           [] a.action = "navigate" ->
                {Fails(<<"get">>, url),
                 Succeeds(<<"get", "ready">>, Completed, selector_value(a))}
           [] OTHER -> {Succeeds(<<>>, Completed, url)}

perform_action(a, url) ==
    IF selector_strategy(a) \notin by_map THEN {Fails(<<>>, url)}
    ELSE CASE a.action = "click" ->
                {Fails(<<"find">>, url),
                 Succeeds(<<"find", "click">>, Completed, url)}
           [] a.action = "type" ->
                {Fails(<<"find">>, url),
                 Succeeds(<<"find", "clear", "send_keys">>, Completed, url)}
           [] a.action = "wait" ->
                IF selector_value(a) \in Numerals
                THEN {Succeeds(<<>>, Completed, url)}
                ELSE {Fails(<<>>, url)}
           [] a.action = "extract" ->
                {Fails(<<"find">>, url),
                 Succeeds(<<"find", "text">>, "element text", url)}
           [] a.action = "navigate" ->
                {Fails(<<"get">>, url),
                 Succeeds(<<"get", "ready">>, Completed, selector_value(a))}
           [] OTHER -> {Succeeds(<<>>, Completed, url)}

\* navigator.py:198-205: the record appended to the ledger
action_record(a, url) ==
    IF a.action = "type"
    THEN [action |-> a.action, target |-> a.target, url |-> url, value |-> a.value]
    ELSE [action |-> a.action, target |-> a.target, url |-> url]

\* a ledger that stores no more than the window the prompt shows
Record_Bounded(history, entry) == LastN(Append(history, entry), RecentWindow)

\* navigator.py:126, 205: self.action_history.append(entry)
Record(history, entry) == Append(history, entry)

(***************************************************************************)
(* The retry counter, navigator.py:190, 213 and 217.                       *)
(***************************************************************************)
RetryAfterInvalid(rc) == rc + 1

RetryAfterSuccess_Keep(rc) == rc

RetryAfterSuccess(rc) == 0

RetryAfterException(rc) == rc + 1

(***************************************************************************)
(* How handle_prompt ends.                                                 *)
(***************************************************************************)
\* main.py:55-58: no answer yet
NoResponse == [status |-> "none", result |-> "None", sent |-> FALSE]

Running == [kind |-> "running", value |-> "None"]
ReturnValue(v) == [kind |-> "returned", value |-> v]
Raise(msg) == [kind |-> "raised", value |-> msg]
MaxRetriesExceeded == "Maximum retries exceeded"

(***************************************************************************)
(* What the model service answers with.                                    *)
(***************************************************************************)
ExampleUrl == "https://example.com"

Submit == Loc([strategy |-> "css", value |-> "#submit"])

aClick == [action |-> "click", target |-> Submit]
aDone == [action |-> "click", target |-> Submit, task_complete |-> TRUE]
aTypeNoValue ==
    [action |-> "type", target |-> Loc([strategy |-> "name", value |-> "q"])]
aBogus ==
    [action |-> "type", target |-> Loc([strategy |-> "bogus", value |-> "x"]),
     value |-> "x"]
aHover == [action |-> "hover", target |-> Submit]
aNoTarget == [action |-> "click"]
aBracket ==
    [action |-> "click", target |-> Loc([strategy |-> "css", value |-> "a[href]"])]
aNavigate == [action |-> "navigate", target |-> Str(ExampleUrl)]
aAchieved == [action |-> "click", target |-> Submit, target_achieved |-> TRUE]

\* the elements of the lists
LoopItems == {Dict(aClick), Dict(aDone), Dict(aBogus)}

\* the lists, of 1 to MaxBatch elements
Batches == UNION {[1..n -> LoopItems] : n \in 1..MaxBatch}

\* the single objects
LoopDicts == {aClick, aTypeNoValue, aHover, aNoTarget, aBracket}

Responses ==
    {Transport, Empty, Text(TRUE, PNone), Text(FALSE, PScalar),
     Text(FALSE, PList(<<>>)), Text(FALSE, PList(<<Key("oops")>>)),
     Text(FALSE, PList(<<Dict(aHover)>>)),
     Text(FALSE, PList(<<Dict(aTypeNoValue)>>)),
     Text(FALSE, PList(<<Dict(aNavigate)>>)),
     Text(FALSE, PList(<<Dict(aNavigate), Dict(aClick)>>)),
     Text(FALSE, PList(<<Dict(aAchieved)>>))}
    \cup {Text(FALSE, PList(s)) : s \in Batches}
    \cup {Text(TRUE, PList(<<x>>)) : x \in LoopItems}
    \cup {Text(b, PDict(d)) : b \in BOOLEAN, d \in LoopDicts}

(***************************************************************************)
(* handle_prompt, navigator.py:49-222.                                     *)
(***************************************************************************)
\* the tasks handle_prompt is given
Tasks == {"navigate to https://example.com", "find the weather in Paris"}

Init ==
    /\ prompt \in Tasks
    /\ pc = "start"
    /\ retry_count = 0
    /\ action_history = <<>>
    /\ driver_url = "about:blank"
    /\ current_url = "None"
    /\ raw = NoAnswer
    /\ actions = <<>>
    /\ idx = 0
    /\ valid = FALSE
    /\ outcome = Running
    /\ calls = 0
    /\ retry_at_start = 0
    /\ performed = <<>>
    /\ driver_calls = {}
    /\ full_prompt = NoPrompt
    /\ conversation_history = <<>>
    /\ task_no = 1
    /\ driver = 1
    /\ quits = 0
    /\ reply = NoResponse

\* navigator.py:215-220: the handler of the while loop's try
Except ==
    /\ retry_count' = RetryAfterException(retry_count)
    /\ IF retry_count' >= max_retries
       THEN pc' = "done" /\ outcome' = Raise(MaxRetriesExceeded)
       ELSE pc' = "while" /\ outcome' = outcome

\* navigator.py:54, 121-134: the initial action is the constant navigation
\* of line 54 (the call of parse_user_prompt is commented out, so the search
\* branch of lines 64-120 is never taken); the driver loads the page, the
\* ledger gets its first entry
InitialNavigate ==
    /\ pc = "start"
    /\ driver_url' = initial_action.target
    /\ action_history' = Record(action_history,
           [action |-> "navigate", target |-> Str(initial_action.target),
            url |-> initial_action.target])
    /\ retry_count' = 0
    /\ pc' = "while"
    /\ UNCHANGED <<driver, quits, reply,
                   prompt, full_prompt, conversation_history, task_no,
                   current_url, raw, actions, idx, valid, outcome, calls,
                   retry_at_start, performed, driver_calls>>

\* navigator.py:124: driver.get raises outside of any try
InitialNavigateFails ==
    /\ pc = "start"
    /\ pc' = "done"
    /\ outcome' = Raise("driver error")
    /\ UNCHANGED <<driver, quits, reply,
                   prompt, full_prompt, conversation_history, task_no,
                   retry_count, action_history, driver_url, current_url, raw,
                   actions, idx, valid, calls, retry_at_start, performed,
                   driver_calls>>

\* navigator.py:136, 222: the while condition fails, final_result (None)
\* is returned
WhileExit ==
    /\ pc = "while"
    /\ ~(retry_count < max_retries)
    /\ pc' = "done"
    /\ outcome' = ReturnValue("None")
    /\ UNCHANGED <<driver, quits, reply,
                   prompt, full_prompt, conversation_history, task_no,
                   retry_count, action_history, driver_url, current_url, raw,
                   actions, idx, valid, calls, retry_at_start, performed,
                   driver_calls>>

\* a snapshot that is taken once and kept for the later iterations
Snapshot_Cached ==
    /\ pc = "while"
    /\ retry_count < max_retries
    /\ calls < MaxCalls
    /\ current_url' = IF current_url = "None" THEN driver_url ELSE current_url
    /\ driver_calls' = {[i |-> 0, op |-> "snapshot"]}
    /\ performed' = <<>>
    /\ actions' = <<>>
    /\ idx' = 0
    /\ retry_at_start' = retry_count
    /\ raw' = NoAnswer
    /\ pc' = "decide"
    /\ UNCHANGED <<driver, quits, reply,
                   prompt, full_prompt, conversation_history, task_no,
                   retry_count, action_history, driver_url, valid, outcome,
                   calls>>

\* navigator.py:136-141: a new iteration takes the snapshot of the page
Snapshot ==
    /\ pc = "while"
    /\ retry_count < max_retries
    /\ calls < MaxCalls
    /\ current_url' = driver_url
    /\ driver_calls' = {[i |-> 0, op |-> "snapshot"]}
    /\ performed' = <<>>
    /\ actions' = <<>>
    /\ idx' = 0
    /\ retry_at_start' = retry_count
    /\ raw' = NoAnswer
    /\ pc' = "decide"
    /\ UNCHANGED <<driver, quits, reply,
                   prompt, full_prompt, conversation_history, task_no,
                   retry_count, action_history, driver_url, valid, outcome,
                   calls>>

\* navigator.py:138-141, 215-220: the snapshot raises
SnapshotFails ==
    /\ pc = "while"
    /\ retry_count < max_retries
    /\ calls < MaxCalls
    /\ driver_calls' = {[i |-> 0, op |-> "snapshot"]}
    /\ performed' = <<>>
    /\ actions' = <<>>
    /\ idx' = 0
    /\ retry_at_start' = retry_count
    /\ raw' = NoAnswer
    /\ Except
    /\ UNCHANGED <<driver, quits, reply,
                   prompt, full_prompt, conversation_history, task_no,
                   action_history, driver_url, current_url, valid, calls>>

\* navigator.py:151-158, llm_interface.py:408-441: the prompt is built from
\* the task, the snapshot and the ledger; the model is asked and the
\* exchange is stored; None ends handle_prompt
Decide ==
    /\ pc = "decide"
    /\ LET p == _prepare_prompt(prompt, current_url, action_history) IN
       IF p.raised
       THEN /\ pc' = "done"
            /\ outcome' = ReturnValue("None")
            /\ UNCHANGED <<raw, actions, idx, calls, full_prompt,
                           conversation_history>>
       ELSE \E r \in Responses :
              /\ full_prompt' = p.v
              /\ raw' = r
              /\ calls' = calls + 1
              /\ conversation_history' =
                    IF NotStored(r) THEN conversation_history
                    ELSE UpdateConversation(conversation_history, calls + 1)
              /\ LET a == decide_next_action(r) IN
                 IF a.t = "None"
                 THEN /\ pc' = "done"
                      /\ outcome' = ReturnValue("None")
                      /\ UNCHANGED <<actions, idx>>
                 ELSE /\ actions' = IterItems(a)
                      /\ idx' = 1
                      /\ pc' = "for"
                      /\ outcome' = outcome
    /\ UNCHANGED <<driver, quits, reply, prompt, task_no,
                   retry_count, action_history, driver_url, current_url,
                   valid, retry_at_start, performed, driver_calls>>

\* navigator.py:172: the for loop has visited every element
ForEnd ==
    /\ pc = "for"
    /\ idx > Len(actions)
    /\ pc' = "while"
    /\ UNCHANGED <<driver, quits, reply,
                   prompt, full_prompt, conversation_history, task_no,
                   retry_count, action_history, driver_url, current_url, raw,
                   actions, idx, valid, outcome, calls, retry_at_start,
                   performed, driver_calls>>

\* a validator that takes the value out of the action it looks at
ValidateCall_Mutating(from, to) ==
    /\ pc = from
    /\ idx <= Len(actions)
    /\ valid' = _validate_action(actions[idx])
    /\ actions' = [actions EXCEPT ![idx] =
                     IF actions[idx].t = "dict"
                     THEN Dict([k \in DOMAIN actions[idx].d \ {"value"} |->
                                  actions[idx].d[k]])
                     ELSE actions[idx]]
    /\ pc' = to
    /\ UNCHANGED <<driver, quits, reply,
                   prompt, full_prompt, conversation_history, task_no,
                   retry_count, action_history, driver_url, current_url, raw,
                   idx, outcome, calls, retry_at_start, performed,
                   driver_calls>>

\* navigator.py:233-261: one call of _validate_action on the element the
\* loop holds; the call reads the action and writes nothing but its result
ValidateCall(from, to) ==
    /\ pc = from
    /\ idx <= Len(actions)
    /\ valid' = _validate_action(actions[idx])
    /\ pc' = to
    /\ UNCHANGED <<driver, quits, reply,
                   prompt, full_prompt, conversation_history, task_no,
                   retry_count, action_history, driver_url, current_url, raw,
                   actions, idx, outcome, calls, retry_at_start, performed,
                   driver_calls>>

\* navigator.py:188: the call of _validate_action in the for loop
Validate == ValidateCall("for", "validated")

\* navigator.py:188-191: an invalid action counts as a retry and the for
\* loop goes on with the next element
Reject ==
    /\ pc = "validated"
    /\ ~valid
    /\ retry_count' = RetryAfterInvalid(retry_count)
    /\ idx' = idx + 1
    /\ pc' = "for"
    /\ UNCHANGED <<driver, quits, reply,
                   prompt, full_prompt, conversation_history, task_no,
                   action_history, driver_url, current_url, raw, actions,
                   valid, outcome, calls, retry_at_start, performed,
                   driver_calls>>

DriverOps(o) == {[i |-> idx, op |-> o.ops[k]] : k \in 1..Len(o.ops)}

\* navigator.py:194-213: the action is performed, recorded, and either
\* ends the task or resets the retry counter
PerformOk ==
    /\ pc = "validated"
    /\ valid
    /\ \E o \in perform_action(actions[idx].d, driver_url) :
         /\ ~o.raised
         /\ performed' = Append(performed, idx)
         /\ driver_calls' = driver_calls \cup DriverOps(o)
         /\ driver_url' = o.url
         /\ action_history' =
               Record(action_history, action_record(actions[idx].d, current_url))
         /\ IF _is_task_complete(actions[idx])
            THEN /\ pc' = "done"
                 /\ outcome' = ReturnValue(o.result)
                 /\ UNCHANGED <<retry_count, idx>>
            ELSE /\ retry_count' = RetryAfterSuccess(retry_count)
                 /\ idx' = idx + 1
                 /\ pc' = "for"
                 /\ outcome' = outcome
    /\ UNCHANGED <<driver, quits, reply,
                   prompt, full_prompt, conversation_history, task_no,
                   current_url, raw, actions, valid, calls, retry_at_start>>

\* a loop that records the action before it knows that it succeeded
PerformFails_Recorded ==
    /\ pc = "validated"
    /\ valid
    /\ \E o \in perform_action(actions[idx].d, driver_url) :
         /\ o.raised
         /\ performed' = Append(performed, idx)
         /\ driver_calls' = driver_calls \cup DriverOps(o)
    /\ action_history' =
          Record(action_history, action_record(actions[idx].d, current_url))
    /\ Except
    /\ UNCHANGED <<driver, quits, reply,
                   prompt, full_prompt, conversation_history, task_no,
                   driver_url, current_url, raw, actions, idx, valid, calls,
                   retry_at_start>>

\* navigator.py:194, 215-220: perform_action raises
PerformFails ==
    /\ pc = "validated"
    /\ valid
    /\ \E o \in perform_action(actions[idx].d, driver_url) :
         /\ o.raised
         /\ performed' = Append(performed, idx)
         /\ driver_calls' = driver_calls \cup DriverOps(o)
    /\ Except
    /\ UNCHANGED <<driver, quits, reply,
                   prompt, full_prompt, conversation_history, task_no,
                   action_history, driver_url, current_url, raw, actions, idx,
                   valid, calls, retry_at_start>>

Next ==
    \/ InitialNavigate
    \/ InitialNavigateFails
    \/ WhileExit
    \/ Snapshot
    \/ SnapshotFails
    \/ Decide
    \/ ForEnd
    \/ Validate
    \/ Reject
    \/ PerformOk
    \/ PerformFails

Spec == Init /\ [][Next]_vars


(***************************************************************************)
(* _validate_action as a function of its argument: every action mapping    *)
(* is validated, and validated a second time.                              *)
(***************************************************************************)
NoField == [k \in {} |-> "None"]

ActionUniverse ==
    {a @@ t @@ v :
        a \in {NoField} \cup {[action |-> k] : k \in ActionTypes \cup {"hover"}},
        t \in {NoField} \cup
              {[target |-> x] :
                  x \in {Str("5"),
                         Loc([strategy |-> "name", value |-> "q"]),
                         Loc([strategy |-> "bogus", value |-> "x"]),
                         Loc([value |-> "x"]),
                         Loc([strategy |-> "css"]),
                         Other}},
        v \in {NoField, [value |-> "hello"]}}

InitValidate ==
    /\ prompt = "find the weather in Paris"
    /\ pc = "for"
    /\ retry_count = 0
    /\ action_history = <<>>
    /\ driver_url = "about:blank"
    /\ current_url = "None"
    /\ raw = NoAnswer
    /\ actions \in {<<Dict(d)>> : d \in ActionUniverse}
    /\ idx = 1
    /\ valid = FALSE
    /\ outcome = Running
    /\ calls = 0
    /\ retry_at_start = 0
    /\ performed = <<>>
    /\ driver_calls = {}
    /\ full_prompt = NoPrompt
    /\ conversation_history = <<>>
    /\ task_no = 1
    /\ driver = 1
    /\ quits = 0
    /\ reply = NoResponse

\* a second call of _validate_action on the same action
ValidateAgain == ValidateCall("validated", "validated twice")

NextValidate ==
    \/ Validate
    \/ ValidateAgain

SpecValidate == InitValidate /\ [][NextValidate]_vars


(***************************************************************************)
(* Properties.                                                             *)
(***************************************************************************)
\* the current iteration has the model's answer
Answered == raw # NoAnswer

\* the text of the answer is not JSON, directly or after the scan
Malformed(r) == r.t = "text" /\ JsonDecode(r).raised

\* the model service failed: transport, empty text, undecodable text
ServiceFailure(r) == r.t \in {"transport", "empty"} \/ Malformed(r)

EmptyList == Text(FALSE, PList(<<>>))

\* the positions of the batch perform_action was called for
PerformedSet == {performed[i] : i \in 1..Len(performed)}

\* the elements of the list the model answered with, as it wrote them
Supplied == IF raw.t = "text" /\ raw.payload.p = "list"
            THEN raw.payload.items ELSE <<>>

\* a type action without a value, as the model wrote it
TypeWithoutValue(x) ==
    /\ x.t = "dict"
    /\ "action" \in DOMAIN x.d
    /\ x.d.action = "type"
    /\ "value" \notin DOMAIN x.d

\* an action whose target is a locator with an unrecognized strategy
BogusStrategy(x) ==
    /\ x.t = "dict"
    /\ "target" \in DOMAIN x.d
    /\ x.d.target.tag = "dict"
    /\ "strategy" \in DOMAIN x.d.target.d
    /\ x.d.target.d.strategy \notin
          {"id", "name", "css", "xpath", "link_text", "partial_link_text",
           "class_name", "tag_name"}

\* the for loop visited every element, and every element was performed
\* without an exception
CleanIteration ==
    /\ pc = "while"
    /\ actions # <<>>
    /\ idx = Len(actions) + 1
    /\ performed = [i \in 1..Len(actions) |-> i]

\* C1: for every malformed or non-JSON answer, parsing does not raise and
\* the loop gets a one-element sequence holding a valid fallback action of
\* kind navigate.
C1_ParseFallback ==
    (Answered /\ Malformed(raw)) =>
        /\ ~_parse_response(raw).raised
        /\ Len(actions) = 1
        /\ actions[1].t = "dict"
        /\ _validate_action(actions[1])
        /\ actions[1].d.action = "navigate"

\* C2: if any action of the batch is invalid under the validator, then
\* perform_action is called for no action of that batch.
C2_AllOrNothing ==
    (\E k \in 1..Len(actions) : ~_validate_action(actions[k])) =>
        performed = <<>>

\* C3: after an iteration whose whole batch was performed without an
\* exception and without an invalid action, the retry counter is 0 when the
\* next iteration starts, whatever it was before, and the task goes on.
C3_ResetAfterCleanIteration ==
    CleanIteration =>
        /\ retry_count = 0
        /\ outcome = Running

\* C3, witness: a clean iteration that started with two failures counted
C3_Witness == CleanIteration /\ retry_at_start = 2

\* C4: when handle_prompt has ended with the retry counter at max_retries,
\* it has raised "Maximum retries exceeded"; it has not returned a value.
C4_MaxRetriesRaises ==
    (pc = "done" /\ retry_count >= max_retries) =>
        outcome = Raise(MaxRetriesExceeded)

\* C5: an iteration the model answers with [] counts as one failure: the
\* task fails with "Maximum retries exceeded" when the counter reaches
\* max_retries with it, and goes on otherwise (so max_retries answers []
\* in a row end the task as FAILED after exactly that many iterations).
C5_EmptyListCountsAsFailure ==
    (Answered /\ raw = EmptyList) =>
        IF retry_at_start + 1 >= max_retries
        THEN outcome = Raise(MaxRetriesExceeded)
        ELSE outcome = Running /\ retry_count = retry_at_start + 1

\* C6: a failure of the model service in an iteration is recovered in the
\* loop: the retry counter goes up by one and, while it is below
\* max_retries, the task is not ended.
C6_ServiceFailureRecovered ==
    (Answered /\ ServiceFailure(raw)) =>
        /\ retry_count = retry_at_start + 1
        /\ (retry_count < max_retries => outcome = Running)

\* C7: perform_action is never called for a type action for which the
\* model supplied no value.
C7_TypeWithoutValueRejected ==
    \A k \in PerformedSet :
        k <= Len(Supplied) => ~TypeWithoutValue(Supplied[k])

\* C8: an action whose locator has an unrecognized strategy is rejected by
\* the validator: perform_action is not called for it and no driver
\* operation is issued on its behalf.
C8_BogusStrategyRejected ==
    \A k \in 1..Len(actions) :
        BogusStrategy(actions[k]) =>
            /\ k \notin PerformedSet
            /\ \A c \in driver_calls : c.i # k
            /\ (pc = "validated" /\ idx = k) => ~valid

\* C8, witness: the loop has gone past an action with a bogus strategy
C8_Witness ==
    /\ pc = "for"
    /\ \E k \in 1..Len(actions) : k < idx /\ BogusStrategy(actions[k])

\* the four rules of the validator
Rule1(x) == "action" \in DOMAIN x.d /\ "target" \in DOMAIN x.d
Rule2(x) == x.d.action \in {"navigate", "click", "type", "wait", "extract"}
Rule3(x) ==
    \/ x.d.target.tag = "str"
    \/ /\ x.d.target.tag = "dict"
       /\ {"strategy", "value"} \subseteq DOMAIN x.d.target.d
       /\ x.d.target.d.strategy \in
             {"id", "name", "css", "xpath", "link_text", "partial_link_text",
              "class_name", "tag_name"}
Rule4(x) == x.d.action = "type" => "value" \in DOMAIN x.d
FourRules(x) == Rule1(x) /\ Rule2(x) /\ Rule3(x) /\ Rule4(x)

TypeHello ==
    [action |-> "type", target |-> Loc([strategy |-> "name", value |-> "q"]),
     value |-> "hello"]
TypeHelloNoValue ==
    [action |-> "type", target |-> Loc([strategy |-> "name", value |-> "q"])]

\* C9: _validate_action returns true exactly when the four rules hold; the
\* type action on {strategy: name, value: q} with value hello yields true,
\* the same action without value yields false.
C9_ValidatorRules ==
    (pc = "validated") =>
        /\ valid = FourRules(actions[idx])
        /\ (actions[idx] = Dict(TypeHello) => valid)
        /\ (actions[idx] = Dict(TypeHelloNoValue) => ~valid)

\* C9, witness: the valid example of the claim has been validated
C9_Witness ==
    /\ pc = "validated"
    /\ actions[idx] = Dict(TypeHello)
    /\ valid

\* C10: a call of the validator leaves the action, the retry counter, the
\* ledger and the driver unchanged, and a second call on an action found
\* valid finds it valid again.
C10_ValidatePure ==
    [][(pc \in {"for", "validated"} /\ pc' \in {"validated", "validated twice"})
        => /\ actions' = actions
           /\ retry_count' = retry_count
           /\ action_history' = action_history
           /\ driver_url' = driver_url
           /\ driver_calls' = driver_calls
           /\ (pc = "validated" /\ valid => valid')]_vars

\* C10, witness: an action validated twice and found valid
C10_Witness == pc = "validated twice" /\ valid



\* the action carries a true completion flag, the one the loop reads
CompletionFlag(x) ==
    x.t = "dict" /\ "task_complete" \in DOMAIN x.d /\ x.d.task_complete = TRUE

\* the step in which perform_action returns for actions[idx]: the only step
\* that appends to the ledger while an action is held
PerformReturns ==
    pc = "validated" /\ valid /\ Len(action_history') = Len(action_history) + 1

\* C11: when an action that was performed successfully carries a true
\* completion flag, handle_prompt returns that action's result at once: no
\* later action of the batch is performed, no further snapshot is taken and
\* the model is not asked again.
C11_CompletionReturnsAtOnce ==
    [][/\ (PerformReturns /\ CompletionFlag(actions[idx])) =>
            /\ pc' = "done"
            /\ outcome' \in {ReturnValue(o.result) :
                               o \in {q \in perform_action(actions[idx].d, driver_url) :
                                         ~q.raised}}
            /\ performed' = Append(performed, idx)
            /\ idx' = idx
       /\ pc = "done" => UNCHANGED vars]_vars

\* C11, witness: the task ended with the result of a flagged action while
\* a later action of the batch was left
C11_Witness ==
    /\ pc = "done"
    /\ outcome = ReturnValue(Completed)
    /\ idx < Len(actions)
    /\ CompletionFlag(actions[idx])


\* C12: when handle_prompt has ended, it has either raised a failure or
\* returned the result string of a performed action that signalled
\* completion; it has not returned None.
C12_OutcomeIsResultOrFailure ==
    (pc = "done") =>
        \/ outcome.kind = "raised"
        \/ /\ outcome.kind = "returned"
           /\ outcome.value # "None"
           /\ idx \in PerformedSet
           /\ CompletionFlag(actions[idx])

\* C13: the only failures handle_prompt raises to its caller are the
\* maximum-retries failure and the invalid-initial-action failure.
C13_OnlyTerminalFailuresPropagate ==
    (outcome.kind = "raised") =>
        outcome.value \in {MaxRetriesExceeded} \cup InvalidInitialAction

\* the model has given its first answer for the task
FirstAnswer == calls = 1 /\ Answered

\* C14: if the first answer of the model is not a navigate or search
\* action, the task has failed at once: a failure is raised, no browser
\* action was executed and the retry counter was not used.
C14_InvalidInitialActionFails ==
    (FirstAnswer /\ parse_user_prompt(raw).raised) =>
        /\ outcome.kind = "raised"
        /\ outcome.value \in InvalidInitialAction
        /\ action_history = <<>>
        /\ performed = <<>>
        /\ retry_count = 0


\* the iteration that just ended contained a failure: an action was found
\* invalid or perform_action raised
IterationFailed == pc = "while" /\ actions # <<>> /\ ~CleanIteration

\* C15: an iteration that contains a failure is counted: when the loop
\* comes back to its test after it, the retry counter is above its value at
\* the start of that iteration (so max_retries such iterations in a row
\* end the task, and only a fully successful iteration resets the count).
C15_FailedIterationIsCounted ==
    IterationFailed => retry_count > retry_at_start

\* C16: once the action at position k of a batch is found invalid, no
\* action at a later position of that batch is performed.
C16_BatchAbandonedAfterInvalid ==
    \A k \in PerformedSet :
        \A j \in 1..(k - 1) : _validate_action(actions[j])

\* C17: within one iteration the retry counter goes up by at most one,
\* however many actions of the batch are invalid.
C17_OneIncrementPerIteration ==
    retry_count <= retry_at_start + 1

\* C18: the validation applied to the parsed answer and the validation of
\* the loop accept the same actions: every action of a batch
\* decide_next_action returned is accepted by _validate_action.
C18_ValidatorsAgree ==
    \A k \in 1..Len(actions) :
        actions[k].t = "dict" =>
            (_validate_response(actions[k]) <=> _validate_action(actions[k]))


\* the model answered with a single action object that decodes and is a
\* valid action
SingleValidObject ==
    /\ Answered
    /\ raw.t = "text"
    /\ raw.payload.p = "dict"
    /\ ~_parse_response(raw).raised
    /\ _validate_action(_parse_response(raw).v)

\* C19: a single valid action object is handed to the loop as a
\* one-element sequence, so the loop validates and performs exactly that
\* action.
C19_SingleObjectIsOneElementBatch ==
    SingleValidObject =>
        /\ actions = <<_parse_response(raw).v>>
        /\ PerformedSet \subseteq {1}

\* the first RUNNING iteration is about to start
FirstIterationStarts == pc = "while" /\ calls = 0

\* C20: when the first RUNNING iteration starts, the ledger holds exactly
\* one entry, the one of the initial action obtained for the task: for the
\* task "navigate to https://example.com" the navigation to
\* https://example.com.
C20_InitialActionRecorded ==
    FirstIterationStarts =>
        /\ Len(action_history) = 1
        /\ (prompt = "navigate to https://example.com" =>
              action_history[1] =
                 [action |-> "navigate", target |-> Str(ExampleUrl),
                  url |-> ExampleUrl])


(***************************************************************************)
(* _prepare_prompt as a function of the ledger: the prompt is built for    *)
(* every ledger of up to MaxLedger entries, the first of which is the      *)
(* initial navigation.                                                     *)
(***************************************************************************)
\* longest ledger the prompt is built for
MaxLedger == 7

aType ==
    [action |-> "type", target |-> Loc([strategy |-> "name", value |-> "q"]),
     value |-> "hello"]

\* what the loop appends to the ledger
LoopRecords == {action_record(aClick, GoogleUrl), action_record(aType, ExampleUrl)}

FirstRecord ==
    [action |-> "navigate", target |-> Str(initial_action.target),
     url |-> initial_action.target]

Ledgers ==
    {<<FirstRecord>> \o s :
        s \in UNION {[1..n -> LoopRecords] : n \in 0..(MaxLedger - 1)}}

InitPrompt ==
    /\ prompt = "find the weather in Paris"
    /\ pc = "prepare"
    /\ retry_count = 0
    /\ action_history \in Ledgers
    /\ driver_url = ExampleUrl
    /\ current_url = ExampleUrl
    /\ raw = NoAnswer
    /\ actions = <<>>
    /\ idx = 0
    /\ valid = FALSE
    /\ outcome = Running
    /\ calls = 0
    /\ retry_at_start = 0
    /\ performed = <<>>
    /\ driver_calls = {}
    /\ full_prompt = NoPrompt
    /\ conversation_history = <<>>
    /\ task_no = 1
    /\ driver = 1
    /\ quits = 0
    /\ reply = NoResponse

\* llm_interface.py:414-418: one call of _prepare_prompt
PreparePrompt ==
    /\ pc = "prepare"
    /\ LET p == _prepare_prompt(prompt, current_url, action_history) IN
       full_prompt' = IF p.raised THEN NoPrompt ELSE p.v
    /\ pc' = "prepared"
    /\ UNCHANGED <<driver, quits, reply,
                   prompt, conversation_history, task_no, retry_count,
                   action_history, driver_url, current_url, raw, actions, idx,
                   valid, outcome, calls, retry_at_start, performed,
                   driver_calls>>

NextPrompt == PreparePrompt

SpecPrompt == InitPrompt /\ [][NextPrompt]_vars

\* C21: the prompt built from a ledger of n entries shows exactly its last
\* min(5, n) entries, in the order of the ledger, and building it leaves the
\* ledger as it was.
C21_PromptShowsLastFive ==
    [][(pc = "prepare" /\ pc' = "prepared") =>
          LET n == Len(action_history)
              m == IF n < 5 THEN n ELSE 5
          IN /\ Len(full_prompt'.action_context) = m
             /\ \A i \in 1..m :
                   full_prompt'.action_context[i] =
                      ContextLine(i, action_history[n - m + i])
             /\ action_history' = action_history]_vars

\* a prompt has been built from a ledger of more than five entries
C21_Witness ==
    /\ pc = "prepared"
    /\ Len(action_history) > 5
    /\ Len(full_prompt.action_context) = 5
    /\ full_prompt.action_context[5].action = "TYPE"


IsPrefix(s, t) == Len(s) <= Len(t) /\ SubSeq(t, 1, Len(s)) = s

\* C22: during one run of handle_prompt the ledger is append-only: in every
\* step the ledger before is a prefix of the ledger after, so no entry is
\* removed, reordered or altered and the length never decreases.
C22_LedgerAppendOnly == [][IsPrefix(action_history, action_history')]_vars

\* the ledger has grown beyond the window the prompt shows
C22_Witness == Len(action_history) > 5 /\ pc = "done"

\* the step is a call of perform_action that raises (the handler of the
\* while loop counts it), or one that returns
PerformRaises == pc = "validated" /\ valid /\ retry_count' = retry_count + 1
PerformSucceeds == pc = "validated" /\ valid /\ retry_count' # retry_count + 1

\* C23: a ledger entry is appended exactly when an action has been executed
\* successfully: a rejected action and an action whose execution raises
\* leave the ledger unchanged, a successfully executed action adds exactly
\* one entry, and nothing else changes the ledger.
C23_EntryIffExecuted ==
    [][/\ (pc = "validated" /\ ~valid) => action_history' = action_history
       /\ PerformRaises => action_history' = action_history
       /\ PerformSucceeds =>
             action_history' =
                Append(action_history,
                       [action |-> actions[idx].d.action,
                        target |-> actions[idx].d.target,
                        url |-> current_url]
                       @@ (IF actions[idx].d.action = "type"
                           THEN [value |-> actions[idx].d.value]
                           ELSE NoField))
       /\ action_history' # action_history =>
             /\ pc = "start" \/ PerformSucceeds
             /\ Len(action_history') = Len(action_history) + 1]_vars

\* a valid click has been tried and has raised, the ledger holds only the
\* entry of the initial navigation
C23_Witness ==
    /\ pc = "while"
    /\ actions = <<Dict(Backfill(aClick))>>
    /\ performed = <<1>>
    /\ retry_count = retry_at_start + 1
    /\ Len(action_history) = 1

\* C25: every request that asks the model for the next actions shows the
\* page of a snapshot taken in the same iteration, after the last executed
\* action: the URL in the prompt is the one the browser has when the request
\* is sent, and no action has been performed since the snapshot.
C25_FreshSnapshot ==
    [][(pc = "decide" /\ calls' = calls + 1) =>
          /\ full_prompt'.url = driver_url
          /\ [i |-> 0, op |-> "snapshot"] \in driver_calls
          /\ performed = <<>>]_vars

\* the second request shows the page the first iteration navigated to
C25_Witness ==
    /\ calls = 2
    /\ full_prompt.url = ExampleUrl
    /\ action_history[Len(action_history)].action = "navigate"
    /\ Len(action_history) = 2


(***************************************************************************)
(* perform_action as a function of the action: it is called once for every *)
(* action of PerformUniverse.                                              *)
(***************************************************************************)
PerformTargets ==
    {Str("5"), Str("#submit"), Str(ExampleUrl),
     Loc([strategy |-> "name", value |-> "q"]),
     Loc([strategy |-> "bogus", value |-> "x"]),
     Loc([strategy |-> "class", value |-> "btn"]),
     Loc([value |-> "x"])}

PerformUniverse ==
    {[action |-> k, target |-> t] @@ v :
        k \in ActionTypes \cup {"hover"},
        t \in PerformTargets,
        v \in {NoField, [value |-> "hello"]}}

InitPerform ==
    /\ prompt = "find the weather in Paris"
    /\ pc = "perform"
    /\ retry_count = 0
    /\ action_history = <<>>
    /\ driver_url = GoogleUrl
    /\ current_url = GoogleUrl
    /\ raw = NoAnswer
    /\ actions \in {<<Dict(a)>> : a \in PerformUniverse}
    /\ idx = 1
    /\ valid = FALSE
    /\ outcome = Running
    /\ calls = 0
    /\ retry_at_start = 0
    /\ performed = <<>>
    /\ driver_calls = {}
    /\ full_prompt = NoPrompt
    /\ conversation_history = <<>>
    /\ task_no = 1
    /\ driver = 1
    /\ quits = 0
    /\ reply = NoResponse

\* navigator.py:263-337: one call of perform_action
PerformCall ==
    /\ pc = "perform"
    /\ \E o \in perform_action(actions[idx].d, driver_url) :
         /\ driver_calls' = DriverOps(o)
         /\ driver_url' = o.url
         /\ outcome' = IF o.raised THEN Raise("Error performing action")
                       ELSE ReturnValue(o.result)
    /\ performed' = Append(performed, idx)
    /\ pc' = "performed"
    /\ UNCHANGED <<driver, quits, reply,
                   prompt, full_prompt, conversation_history, task_no,
                   retry_count, action_history, current_url, raw, actions, idx,
                   valid, calls, retry_at_start>>

NextPerform == PerformCall

SpecPerform == InitPerform /\ [][NextPerform]_vars

\* the target of the action is a structured locator that names a strategy
\* outside the recognized ones
UnrecognizedStrategy(a) ==
    /\ a.target.tag = "dict"
    /\ "strategy" \in DOMAIN a.target.d
    /\ a.target.d.strategy \notin
          {"id", "name", "css", "xpath", "link_text", "partial_link_text",
           "class_name", "tag_name"}

\* C26: perform_action called with a structured locator whose strategy is
\* not recognized fails before any lookup: it raises and no driver call has
\* been issued, whatever the kind of the action.
C26_UnrecognizedStrategyFailsFast ==
    (pc = "performed" /\ UnrecognizedStrategy(actions[1].d)) =>
        /\ outcome.kind = "raised"
        /\ driver_calls = {}
        /\ driver_url = GoogleUrl

\* perform_action has been called for a click with the strategy "class"
C26_Witness ==
    /\ pc = "performed"
    /\ actions[1].d.action = "click"
    /\ actions[1].d.target = Loc([strategy |-> "class", value |-> "btn"])
    /\ outcome.kind = "raised"


(***************************************************************************)
(* A WebNavigator instance that is given several tasks, one after the      *)
(* other: handle_prompt is called again when the previous call has ended.  *)
(* The ledger, the conversation history and the browser belong to the      *)
(* instance (navigator.py:41-45, llm_interface.py:31); the locals of       *)
(* handle_prompt start anew.  calls goes on counting the requests of the   *)
(* instance.                                                               *)
(***************************************************************************)
\* number of tasks given to one instance
MaxTasks == 2

\* navigator.py:49-55: handle_prompt is entered again
StartTask ==
    /\ pc = "done"
    /\ task_no < MaxTasks
    /\ task_no' = task_no + 1
    /\ prompt' \in Tasks
    /\ pc' = "start"
    /\ outcome' = Running
    /\ retry_count' = 0
    /\ retry_at_start' = 0
    /\ current_url' = "None"
    /\ raw' = NoAnswer
    /\ actions' = <<>>
    /\ idx' = 0
    /\ valid' = FALSE
    /\ performed' = <<>>
    /\ driver_calls' = {}
    /\ full_prompt' = NoPrompt
    /\ UNCHANGED <<action_history, conversation_history, driver_url, calls,
                   driver, quits, reply>>

NextInstance ==
    \/ Next
    \/ StartTask

SpecInstance == Init /\ [][NextInstance]_vars

\* C24: the ledger is scoped to the task: whenever handle_prompt starts,
\* also for the second task of an instance, the ledger is empty.
C24_LedgerEmptyAtTaskStart == pc = "start" => action_history = <<>>


(***************************************************************************)
(* handle_prompt for either kind of initial action parse_user_prompt can   *)
(* return.  Line 54 of navigator.py fixes the initial action to the        *)
(* navigation, which is the run that begins at pc = "start"; the lines     *)
(* 64-120 are written for the initial action "search", the run that        *)
(* begins at pc = "search".                                                *)
(***************************************************************************)
InitSearch ==
    /\ prompt \in Tasks
    /\ pc \in {"start", "search"}
    /\ retry_count = 0
    /\ action_history = <<>>
    /\ driver_url = "about:blank"
    /\ current_url = "None"
    /\ raw = NoAnswer
    /\ actions = <<>>
    /\ idx = 0
    /\ valid = FALSE
    /\ outcome = Running
    /\ calls = 0
    /\ retry_at_start = 0
    /\ performed = <<>>
    /\ driver_calls = {}
    /\ full_prompt = NoPrompt
    /\ conversation_history = <<>>
    /\ task_no = 1
    /\ driver = 1
    /\ quits = 0
    /\ reply = NoResponse

\* navigator.py:64-87: the search is typed into Google and recorded, the
\* result page is read
Search ==
    /\ pc = "search"
    /\ driver_url' = GoogleUrl
    /\ current_url' = GoogleUrl
    /\ driver_calls' =
          {[i |-> 0, op |-> o] : o \in {"get", "find", "send_keys", "submit", "snapshot"}}
    /\ action_history' =
          Record(action_history,
                 [action |-> "search", query |-> prompt, url |-> GoogleUrl])
    /\ pc' = "search decide"
    /\ UNCHANGED <<driver, quits, reply,
                   prompt, full_prompt, conversation_history, task_no,
                   retry_count, raw, actions, idx, valid, outcome, calls,
                   retry_at_start, performed>>

\* navigator.py:67-72: the driver raises, outside of any try
SearchFails ==
    /\ pc = "search"
    /\ pc' = "done"
    /\ outcome' = Raise("driver error")
    /\ UNCHANGED <<driver, quits, reply,
                   prompt, full_prompt, conversation_history, task_no,
                   retry_count, action_history, driver_url, current_url, raw,
                   actions, idx, valid, calls, retry_at_start, performed,
                   driver_calls>>

\* navigator.py:109: result_action["action"] for what decide_next_action
\* returned: None and a list have no such item (TypeError)
ResultAction(a) == IF a.t = "dict" THEN a.d.action ELSE "TypeError"

\* navigator.py:90-120: the model picks a search result, which is clicked
\* and recorded; anything else is raised to the caller
SearchDecide ==
    /\ pc = "search decide"
    /\ LET p == _prepare_prompt(prompt, current_url, action_history) IN
       IF p.raised
       THEN /\ pc' = "done"
            /\ outcome' = Raise("TypeError")
            /\ UNCHANGED <<raw, actions, calls, full_prompt,
                           conversation_history, action_history, driver_url,
                           performed, retry_count>>
       ELSE \E r \in Responses :
              /\ full_prompt' = p.v
              /\ raw' = r
              /\ calls' = calls + 1
              /\ conversation_history' =
                    IF NotStored(r) THEN conversation_history
                    ELSE UpdateConversation(conversation_history, calls + 1)
              /\ LET a == decide_next_action(r) IN
                 CASE ResultAction(a) = "TypeError" ->
                        /\ pc' = "done"
                        /\ outcome' = Raise("TypeError")
                        /\ UNCHANGED <<actions, action_history, driver_url,
                                       performed, retry_count>>
                   [] ResultAction(a) = "click" ->
                        \E o \in perform_action(a.d, driver_url) :
                          /\ actions' = <<a>>
                          /\ performed' = <<1>>
                          /\ driver_url' = o.url
                          /\ IF o.raised
                             THEN /\ pc' = "done"
                                  /\ outcome' = Raise("Error performing action")
                                  /\ UNCHANGED <<action_history, retry_count>>
                             ELSE /\ action_history' =
                                        Record(action_history,
                                               [action |-> "click",
                                                target |-> a.d.target,
                                                url |-> current_url])
                                  /\ retry_count' = 0
                                  /\ pc' = "while"
                                  /\ outcome' = outcome
                   [] OTHER ->
                        /\ pc' = "done"
                        /\ outcome' = Raise("LLM failed to select a search result")
                        /\ UNCHANGED <<actions, action_history, driver_url,
                                       performed, retry_count>>
    /\ UNCHANGED <<driver, quits, reply,
                   prompt, task_no, current_url, idx, valid, retry_at_start,
                   driver_calls>>

NextSearch ==
    \/ Next
    \/ Search
    \/ SearchFails
    \/ SearchDecide

SpecSearch == InitSearch /\ [][NextSearch]_vars

\* the fields of a ledger entry
HistoryEntryShape(e) ==
    /\ {"action", "target", "url"} \subseteq DOMAIN e
    /\ e.action = "type" => "value" \in DOMAIN e

TargetAchieved(x) ==
    x.t = "dict" /\ "target_achieved" \in DOMAIN x.d /\ x.d.target_achieved = TRUE

\* perform_action has been called for the k-th action of the batch and has
\* returned
ExecutedOk(k) ==
    /\ k \in PerformedSet
    /\ ~(idx = k /\ (pc = "while" \/ outcome.kind = "raised"))

\* C28: the completion field the parser fills in (target_achieved) is the
\* one the loop reads: once an action on which the model set it to true has
\* been executed, handle_prompt has ended with that action's result.
C28_TargetAchievedEndsTask ==
    \A k \in 1..Len(actions) :
        (ExecutedOk(k) /\ TargetAchieved(actions[k])) =>
            pc = "done" /\ outcome = ReturnValue(Completed)

\* C29: the retry counter stays between 0 and max_retries.
C29_RetryCountBounded == 0 <= retry_count /\ retry_count <= max_retries


(***************************************************************************)
(* _send_to_llm called any number of times on one LLMInterface: each       *)
(* request gets one of the answers of Responses.                           *)
(***************************************************************************)
\* number of requests sent through one LLMInterface
MaxSends == 7

InitChat ==
    /\ prompt = "find the weather in Paris"
    /\ pc = "chat"
    /\ retry_count = 0
    /\ action_history = <<>>
    /\ driver_url = "about:blank"
    /\ current_url = "None"
    /\ raw = NoAnswer
    /\ actions = <<>>
    /\ idx = 0
    /\ valid = FALSE
    /\ outcome = Running
    /\ calls = 0
    /\ retry_at_start = 0
    /\ performed = <<>>
    /\ driver_calls = {}
    /\ full_prompt = NoPrompt
    /\ conversation_history = <<>>
    /\ task_no = 1
    /\ driver = 1
    /\ quits = 0
    /\ reply = NoResponse

\* llm_interface.py:219-282: one call of _send_to_llm
Send ==
    /\ pc = "chat"
    /\ calls < MaxSends
    /\ \E r \in Responses :
         /\ raw' = r
         /\ conversation_history' =
               IF NotStored(r) THEN conversation_history
               ELSE UpdateConversation(conversation_history, calls + 1)
    /\ calls' = calls + 1
    /\ UNCHANGED <<driver, quits, reply,
                   prompt, full_prompt, task_no, pc, retry_count,
                   action_history, driver_url, current_url, actions, idx,
                   valid, outcome, retry_at_start, performed, driver_calls>>

NextChat == Send

SpecChat == InitChat /\ [][NextChat]_vars

\* at most ten messages, a user message followed by the assistant's answer
\* to the same request, the requests in the order they were sent
WellFormedConversation ==
    /\ Len(conversation_history) <= 10
    /\ \A i \in 1..Len(conversation_history) :
          /\ conversation_history[i].role =
                (IF i % 2 = 1 THEN "user" ELSE "assistant")
          /\ i % 2 = 0 =>
                conversation_history[i].content = conversation_history[i - 1].content
          /\ i > 2 =>
                conversation_history[i].content > conversation_history[i - 2].content

\* the messages kept after the request n was answered are the last ten (or
\* fewer) of the messages kept before followed by the two new ones
KeepsMostRecent ==
    LET n == calls + 1
        all == conversation_history \o
                  <<[role |-> "user", content |-> n],
                    [role |-> "assistant", content |-> n]>>
        m == IF Len(all) < 10 THEN Len(all) ELSE 10
    IN conversation_history' = SubSeq(all, Len(all) - m + 1, Len(all))

\* C30: after any sequence of calls of _send_to_llm the conversation
\* history holds at most 10 messages, the most recent ones in order,
\* alternating user prompt and assistant answer.
C30_ConversationBounded ==
    /\ []WellFormedConversation
    /\ [][calls' = calls + 1 =>
            IF raw'.t = "text" THEN KeepsMostRecent
            ELSE conversation_history' = conversation_history]_vars

\* six exchanges have been stored and the first one has been dropped
C30_Witness ==
    /\ pc = "chat"
    /\ Len(conversation_history) = 10
    /\ conversation_history[1] = [role |-> "user", content |-> 2]
    /\ conversation_history[10] = [role |-> "assistant", content |-> 6]


\* C33: the url of every entry recorded in the loop is the URL the browser
\* has when perform_action is called for that action, also for a later
\* action of a batch in which an earlier action changed the page.
C33_EntryUrlIsBrowserUrl ==
    [][PerformSucceeds =>
          action_history'[Len(action_history')].url = driver_url]_vars


(***************************************************************************)
(* The front door, main.py:21-64: handle_navigation.  It is a coroutine    *)
(* that never awaits, so the requests are handled one after the other.     *)
(* Each request creates its driver, its LLMInterface and its WebNavigator, *)
(* calls handle_prompt once, translates its ending into the answer, and    *)
(* quits the driver in the finally clause.  The driver object created for  *)
(* the request number n is n; task_no is the number of the request.        *)
(***************************************************************************)
Success(v) == [status |-> "success", result |-> v, sent |-> FALSE]
Error500(detail) == [status |-> "500", result |-> detail, sent |-> FALSE]

InitFrontDoor ==
    /\ prompt \in Tasks
    /\ pc = "request"
    /\ retry_count = 0
    /\ action_history = <<>>
    /\ driver_url = "about:blank"
    /\ current_url = "None"
    /\ raw = NoAnswer
    /\ actions = <<>>
    /\ idx = 0
    /\ valid = FALSE
    /\ outcome = Running
    /\ calls = 0
    /\ retry_at_start = 0
    /\ performed = <<>>
    /\ driver_calls = {}
    /\ full_prompt = NoPrompt
    /\ conversation_history = <<>>
    /\ task_no = 1
    /\ driver = 0
    /\ quits = 0
    /\ reply = NoResponse

\* main.py:24-53: the driver, the LLMInterface and the WebNavigator are
\* created and handle_prompt is called
CreateDriver ==
    /\ pc = "request"
    /\ driver' = task_no
    /\ pc' = "start"
    /\ UNCHANGED <<quits, reply, prompt, full_prompt, conversation_history,
                   task_no, retry_count, action_history, driver_url,
                   current_url, raw, actions, idx, valid, outcome, calls,
                   retry_at_start, performed, driver_calls>>

\* main.py:48, 56-58: the browser does not start; driver is still None
CreateDriverFails ==
    /\ pc = "request"
    /\ reply' = Error500("driver error")
    /\ pc' = "finally"
    /\ UNCHANGED <<driver, quits, prompt, full_prompt, conversation_history,
                   task_no, retry_count, action_history, driver_url,
                   current_url, raw, actions, idx, valid, outcome, calls,
                   retry_at_start, performed, driver_calls>>

\* main.py:53-58: what handle_prompt returned becomes the result of a
\* success answer, what it raised the detail of an HTTP 500
Translate ==
    /\ pc = "done"
    /\ reply' = IF outcome.kind = "returned" THEN Success(outcome.value)
                ELSE Error500(outcome.value)
    /\ pc' = "finally"
    /\ UNCHANGED <<driver, quits, prompt, full_prompt, conversation_history,
                   task_no, retry_count, action_history, driver_url,
                   current_url, raw, actions, idx, valid, outcome, calls,
                   retry_at_start, performed, driver_calls>>

\* a finally clause that quits the driver only after a success
Finally_OnlyAfterSuccess ==
    /\ pc = "finally"
    /\ quits' = IF driver # 0 /\ reply.status = "success" THEN quits + 1 ELSE quits
    /\ reply' = [reply EXCEPT !.sent = TRUE]
    /\ pc' = "responded"
    /\ UNCHANGED <<driver, prompt, full_prompt, conversation_history,
                   task_no, retry_count, action_history, driver_url,
                   current_url, raw, actions, idx, valid, outcome, calls,
                   retry_at_start, performed, driver_calls>>

\* main.py:59-64: the finally clause quits the driver if there is one (an
\* exception of quit is logged), then the answer leaves the handler
Finally ==
    /\ pc = "finally"
    /\ quits' = IF driver # 0 THEN quits + 1 ELSE quits
    /\ reply' = [reply EXCEPT !.sent = TRUE]
    /\ pc' = "responded"
    /\ UNCHANGED <<driver, prompt, full_prompt, conversation_history,
                   task_no, retry_count, action_history, driver_url,
                   current_url, raw, actions, idx, valid, outcome, calls,
                   retry_at_start, performed, driver_calls>>

\* main.py:21-24: the next request enters the handler
NextRequest ==
    /\ pc = "responded"
    /\ task_no < MaxTasks
    /\ task_no' = task_no + 1
    /\ prompt' \in Tasks
    /\ pc' = "request"
    /\ driver' = 0
    /\ quits' = 0
    /\ reply' = NoResponse
    /\ retry_count' = 0
    /\ action_history' = <<>>
    /\ driver_url' = "about:blank"
    /\ current_url' = "None"
    /\ raw' = NoAnswer
    /\ actions' = <<>>
    /\ idx' = 0
    /\ valid' = FALSE
    /\ outcome' = Running
    /\ calls' = 0
    /\ retry_at_start' = 0
    /\ performed' = <<>>
    /\ driver_calls' = {}
    /\ full_prompt' = NoPrompt
    /\ conversation_history' = <<>>

NextFrontDoor ==
    \/ CreateDriver
    \/ CreateDriverFails
    \/ Next
    \/ Translate
    \/ Finally
    \/ NextRequest

SpecFrontDoor == InitFrontDoor /\ [][NextFrontDoor]_vars

\* handle_prompt is running on behalf of the request
LoopRunning == pc \notin {"request", "finally", "responded"}

\* C31: the driver created for a request is quit exactly once before the
\* answer leaves the handler, whether handle_prompt returned a result,
\* returned nothing or raised, and not before handle_prompt has ended; the
\* control loop of a request works on the driver created for that request.
C31_DriverQuitOnce ==
    /\ reply.sent => quits = (IF driver # 0 THEN 1 ELSE 0)
    /\ ~reply.sent => quits = 0
    /\ LoopRunning => driver = task_no

\* the second request has been answered with a failure and its driver,
\* another one than the first request's, has been quit once
C31_Witness ==
    /\ pc = "responded"
    /\ task_no = 2
    /\ driver = 2
    /\ reply.status = "500"
    /\ reply.result = MaxRetriesExceeded
    /\ quits = 1

\* C32: the front door answers with the status "success" only when the
\* control loop ended with an executed action that signalled completion.
C32_SuccessOnlyWhenSucceeded ==
    reply.status = "success" =>
        /\ outcome.kind = "returned"
        /\ outcome.value # "None"
        /\ idx \in PerformedSet
        /\ CompletionFlag(actions[idx])

====
